---- MODULE Spec2Model ----
(***************************************************************************)
(* Credit-scoring orchestration pipeline (backend/app/services/processing  *)
(* .py) with the collaborators it calls: the Redis-backed JSON cache       *)
(* (cache_service.py), the signal ingestion (data_ingestion.py) and the    *)
(* scorer (models/credit_scorer.py).                                       *)
(*                                                                         *)
(* Python dictionaries are functions from field names to values; the empty *)
(* dictionary, the empty list and None are all the empty function <<>>:    *)
(* the code only ever tests these three for truthiness ("or {}", "or []",  *)
(* "if scores:", "if not data:", "if finData:").                           *)
(*                                                                         *)
(* Numbers that are fractions in the source (ratios, sentiment, scores)    *)
(* are kept in hundredths: 0.5 is 50, 2 is 200, 0.15 is 15, and a score of *)
(* 749.96 is 74996.                                                        *)
(*                                                                         *)
(* datetime.now() is a logical clock, `now`, that advances once per        *)
(* refresh that acquires the guard: every timestamp a refresh writes is    *)
(* the ordinal of that refresh.                                            *)
(***************************************************************************)
EXTENDS Integers, Sequences, FiniteSets, TLC

\* ------------------------------------------------------------------ bounds
\* Concurrent callers of the service (HTTP handlers, background tasks).
NumCallers == 2
\* Refreshes that may run to their end in one behaviour.
MaxRefreshes == 1

\* ------------------------------------------------------- program constants
\* "if len(history) > 100: history = history[-100:]"
HistoryLimit == 100
\* "return history[-50:]"
HistoryWindow == 50
\* base_score of the rule-based fallback
BaseScore == 500
\* clamp and risk thresholds
MaxScore == 1000
LowRiskMin == 750
MediumRiskMin == 500

\* The tracked tickers, in the order of self.tickers (the first two of ten).
tickers == <<"AAPL", "GOOGL">>

TickerSet == {tickers[i] : i \in 1..Len(tickers)}

\* Default ticker of _fallback_score(financial_data, news_data, ticker="UNKNOWN").
UnknownTicker == "UNKNOWN"

\* Every ticker a ScoreResult can carry, hence every history:<ticker> key.
HistKeys == TickerSet \cup {UnknownTicker}

Callers == 1..NumCallers

None == <<>>

EmptyDict == <<>>

EmptyList == <<>>

\* Python truthiness of a dict, list or None.
Truthy(v) == v # <<>>

\* "x or default"
OrElse(x, default) == IF Truthy(x) THEN x ELSE default

\* dict.get(k, default)
Get(d, k, default) == IF k \in DOMAIN d THEN d[k] ELSE default

\* d[k] = v
Put(d, k, v) == [x \in (DOMAIN d) \cup {k} |-> IF x = k THEN v ELSE d[x]]

Min(a, b) == IF a < b THEN a ELSE b

Max(a, b) == IF a > b THEN a ELSE b

VARIABLES
    processing,      \* ProcessingService.processing
    last_update,     \* ProcessingService.last_update (0 is None)
    is_trained,      \* CreditScorer.is_trained
    latest_scores,   \* Redis value under json:latest_scores (None when absent)
    history,         \* Redis values under json:history:<ticker>
    now,             \* logical clock read by datetime.now()
    pc,              \* per caller: where its coroutine is suspended
    call,            \* per caller: the operation its suspended coroutine runs
    data,            \* per caller: process_all_scores' local `data`
    processedData,   \* per caller: process_all_scores' local `processedData`
    ret              \* the return, if any, that the last step made to a caller

vars == <<processing, last_update, is_trained, latest_scores, history, now,
          pc, call, data, processedData, ret>>

\* ------------------------------------------------------------------ scorer

feature_names == {"market_cap_log", "debt_to_equity", "current_ratio", "roe",
                  "price_change_30d", "volatility", "volume_avg_log",
                  "sentiment_score", "news_count", "vix", "treasury_10y"}

\* A whole number of the source, in hundredths.
Points(n) == n * 100

\* The tier and colour both scorer paths derive from the clamped score.
RiskLevel(score) ==
    IF score >= Points(LowRiskMin) THEN "Low Risk"
    ELSE IF score >= Points(MediumRiskMin) THEN "Medium Risk"
    ELSE "High Risk"

Color(score) ==
    IF score >= Points(LowRiskMin) THEN "green"
    ELSE IF score >= Points(MediumRiskMin) THEN "yellow"
    ELSE "red"

\* max(0, min(1000, score))
Clamp(score) == Max(0, Min(Points(MaxScore), score))

\* round(score, 1) of a clamped (non-negative) score: the nearest tenth. The
\* predictions drawn below are never half-way between two tenths.
Round1(score) == ((score + 5) \div 10) * 10

\* A field value that is no number (a string, a list): min, max and the
\* comparisons < and > raise TypeError on it.
NotANumber == -999999

IsNumber(x) == x # NotANumber

\* The `except` result of _fallback_score.
FallbackError(ticker) ==
    [ticker |-> ticker, score |-> Points(BaseScore), risk_level |-> "Medium Risk",
     color |-> "yellow", contributions |-> EmptyDict,
     explanation |-> "Error in scoring", timestamp |-> now]

\* base_score after the three rules of lines 152-171.
FallbackBase_inclusive(debt_to_equity, roe, sentiment) ==
    Points(BaseScore)
    + (IF debt_to_equity <= 50 THEN Points(100)
       ELSE IF debt_to_equity >= 200 THEN -Points(150) ELSE 0)
    + (IF roe >= 15 THEN Points(100) ELSE IF roe <= 0 THEN -Points(200) ELSE 0)
    + (IF sentiment >= 60 THEN Points(50) ELSE IF sentiment <= 40 THEN -Points(50) ELSE 0)

FallbackBase(debt_to_equity, roe, sentiment) ==
    Points(BaseScore)
    + (IF debt_to_equity < 50 THEN Points(100)
       ELSE IF debt_to_equity > 200 THEN -Points(150) ELSE 0)
    + (IF roe > 15 THEN Points(100) ELSE IF roe < 0 THEN -Points(200) ELSE 0)
    + (IF sentiment > 60 THEN Points(50) ELSE IF sentiment < 40 THEN -Points(50) ELSE 0)

_fallback_score(financial_data, news_data, ticker) ==
    LET debt_to_equity == Get(financial_data, "debt_to_equity", 100)
        roe == Get(financial_data, "roe", 0)
        sentiment == Get(news_data, "sentiment_score", 50)
    IN  IF ~(IsNumber(debt_to_equity) /\ IsNumber(roe) /\ IsNumber(sentiment))
        THEN FallbackError(ticker)
        ELSE LET score == Clamp(FallbackBase(debt_to_equity, roe, sentiment))
             IN [ticker |-> ticker, score |-> score,
                 risk_level |-> RiskLevel(score), color |-> Color(score),
                 contributions |-> [k \in {"fallback"} |-> 100],
                 explanation |-> "Fallback scoring used", timestamp |-> now]

\* What a caller of the scorer receives: a value, or the exception.
Returned(v) == [raised |-> FALSE, val |-> v]

Raised == [raised |-> TRUE, val |-> EmptyDict]

\* The steps of the model path of calculate_score that can raise.
Steps == {"extract", "scale", "predict", "contributions", "tier", "explanation"}

\* What the fitted model does on one call: the step, if any, in which an
\* exception is raised whatever the inputs, and the regression's prediction.
Predicts == [fails |-> "none", prediction |-> Points(800)]

ModelRaises == [fails |-> "predict", prediction |-> 0]

\* _extract_features raises inside its try block: min, max or np.log applied
\* to a value that is no number.
ExtractRaises(financial_data, m) ==
    \/ m.fails = "extract"
    \/ \E f \in {"market_cap", "debt_to_equity", "current_ratio", "volume_avg"} :
          f \in DOMAIN financial_data /\ ~IsNumber(financial_data[f])

\* _extract_features: the 11 features with their defaults, caps and floors,
\* or the zero vector from its `except`. The two logarithms are left out: the
\* vector is read only by the scaler and the model, of which the prediction is
\* drawn, not computed. market_cap and volume_avg are whole numbers.
_extract_features(financial_data, news_data, macro_data, m) ==
    IF ExtractRaises(financial_data, m) THEN [k \in feature_names |-> 0]
    ELSE [k \in feature_names |->
            CASE k = "market_cap_log" -> Max(Get(financial_data, "market_cap", 1000000000), 1000000)
              [] k = "debt_to_equity" -> Min(Get(financial_data, "debt_to_equity", 100), 1000)
              [] k = "current_ratio" -> Max(Get(financial_data, "current_ratio", 100), 10)
              [] k = "roe" -> Get(financial_data, "roe", 10)
              [] k = "price_change_30d" -> Get(financial_data, "price_change_30d", 0)
              [] k = "volatility" -> Get(financial_data, "volatility", 100)
              [] k = "volume_avg_log" -> Max(Get(financial_data, "volume_avg", 1000000), 1000)
              [] k = "sentiment_score" -> Get(news_data, "sentiment_score", 50)
              [] k = "news_count" -> Get(news_data, "news_count", 0)
              [] k = "vix" -> Get(macro_data, "vix", 2000)
              [] OTHER -> Get(macro_data, "treasury_10y", 400)]

\* scaler.transform raises on a vector that holds a value that is no number.
ScaleRaises(features, m) ==
    m.fails = "scale" \/ \E k \in DOMAIN features : ~IsNumber(features[k])

\* _generate_explanation: the full text, or the short one from its `except`.
_generate_explanation(m) ==
    IF m.fails = "explanation" THEN "score only" ELSE "score, tier and key factors"

\* "except Exception as e: ... return self._fallback_score(financial_data,
\* news_data, ticker)" of calculate_score.
ScoreExcept_reraise(ticker, financial_data, news_data) == Raised

ScoreExcept(ticker, financial_data, news_data) ==
    Returned(_fallback_score(financial_data, news_data, ticker))

\* calculate_score: what its caller receives. The contributions are
\* scaled value x importance x 100 per feature, kept as 0 here.
calculate_score(ticker, financial_data, news_data, macro_data, m) ==
    IF ~is_trained THEN Returned(_fallback_score(financial_data, news_data, UnknownTicker))
    ELSE LET features == _extract_features(financial_data, news_data, macro_data, m)
         IN IF ScaleRaises(features, m) \/ m.fails \in {"predict", "contributions", "tier"}
            THEN ScoreExcept(ticker, financial_data, news_data)
            ELSE LET score == Clamp(m.prediction)
                 IN Returned([ticker |-> ticker, score |-> Round1(score),
                              risk_level |-> RiskLevel(score), color |-> Color(score),
                              contributions |-> [k \in feature_names |-> 0],
                              explanation |-> _generate_explanation(m),
                              timestamp |-> now])

\* ------------------------------------------------------------------- cache

\* Cache.get_json: the stored value, or None when Redis fails (ok = FALSE).
get_json(stored, ok) == IF ok THEN stored ELSE None

\* Cache.set_json: the key's new value; a failed write is logged and dropped.
set_json(stored, value, ok) == IF ok THEN value ELSE stored

\* --------------------------------------------------------------- ingestion

\* A non-empty financial record (debt-to-equity 3.0, ROE -0.1), the news
\* record (sentiment 0.2) and the macro record of a refresh.
FinA == [debt_to_equity |-> 300, roe |-> -10, current_ratio |-> 100]

NewsA == [sentiment_score |-> 20, news_count |-> 3]

MacroA == [vix |-> 20, treasury_10y |-> 4]

\* ingest_all_data's result when the tickers in `full` have a financial record
\* and the others an empty one ({} from get_financial_data's except).
IngestedData(full) ==
    [financial |-> [t \in TickerSet |-> IF t \in full THEN FinA ELSE EmptyDict],
     news |-> [t \in TickerSet |-> NewsA],
     macro |-> MacroA,
     timestamp |-> now]

\* --------------------------------------------------------- process_all_scores

\* "if self.processing:" -- the single-flight guard.
GuardBusy_never == FALSE

GuardBusy == processing

\* "finally: self.processing = False", reached with the return value r on
\* every exit of the try block.
Release_skipped(r) == processing

Release_onSuccessOnly(r) == IF Truthy(r.val) THEN FALSE ELSE processing

Release(r) == FALSE

\* "except Exception as e: ... return {}" -- what the caller receives: a value
\* (raised = FALSE) or the exception itself.
ExceptHandler_reraise == [raised |-> TRUE, val |-> EmptyDict]

ExceptHandler == [raised |-> FALSE, val |-> EmptyDict]

\* "if finData:" -- only tickers with a financial record get a task.
ShouldScore_always(finData) == TRUE

ShouldScore(finData) == Truthy(finData)

\* The tickers a task is created for, in the order of financial_data.keys().
RECURSIVE TasksFrom(_, _)
TasksFrom(financial_data, i) ==
    IF i > Len(tickers) THEN <<>>
    ELSE LET t == tickers[i]
             rest == TasksFrom(financial_data, i + 1)
         IN IF t \in DOMAIN financial_data /\ ShouldScore(financial_data[t])
            THEN <<t>> \o rest ELSE rest

Tasks(d) == TasksFrom(Get(d, "financial", EmptyDict), 1)

\* What one scoring task leaves in gather's result list: the model's result,
\* the fallback's, {} (the except of _calculate_score_async) or an exception
\* object (return_exceptions=True).
TaskOutcomes == {"model", "fallback", "empty", "exception"}

ExceptionObject == [exception |-> "Exception"]

\* What _calculate_score_async makes of calculate_score's outcome: the result,
\* or {} from its `except`.
ScoreResult(r) == IF r.raised THEN EmptyDict ELSE r.val

\* _calculate_score_async for one ticker under outcome o.
TaskResult(d, t, o) ==
    LET fin == d.financial[t]
        news == Get(d.news, t, EmptyDict)
    IN CASE o = "model" -> ScoreResult(calculate_score(t, fin, news, d.macro, Predicts))
         [] o = "fallback" -> ScoreResult(calculate_score(t, fin, news, d.macro, ModelRaises))
         [] o = "empty" -> EmptyDict
         [] OTHER -> ExceptionObject

\* "isinstance(result, dict) and 'ticker' in result"
Accepted_any(result) == "exception" \notin DOMAIN result

Accepted(result) == "exception" \notin DOMAIN result /\ "ticker" \in DOMAIN result

\* The fan-in loop over gather's results, in task order.
RECURSIVE FanIn(_, _, _)
FanIn(results, i, scores) ==
    IF i > Len(results) THEN scores
    ELSE FanIn(results, i + 1,
               IF Accepted(results[i])
               THEN Put(scores, Get(results[i], "ticker", "?"), results[i])
               ELSE scores)

\* The processedData dictionary of lines 53-58.
BuildProcessedData(scores, d, nTasks) ==
    [scores |-> scores, data_timestamp |-> Get(d, "timestamp", 0),
     processing_timestamp |-> now, ticker_count |-> Cardinality(DOMAIN scores)]

\* ------------------------------------------------------------------ history

HistoryEntry_defaults(score_data) ==
    [timestamp |-> now, score |-> 0, risk_level |-> "Unknown"]

HistoryEntry(score_data) ==
    [timestamp |-> now, score |-> Get(score_data, "score", 0),
     risk_level |-> Get(score_data, "risk_level", "Unknown")]

\* seq[-n:]
LastN(seq, n) ==
    IF Len(seq) > n THEN SubSeq(seq, Len(seq) - n + 1, Len(seq)) ELSE seq

\* history.append(entry); if len(history) > 100: history = history[-100:]
AppendBounded_noTruncate(h, entry) == Append(h, entry)

AppendBounded(h, entry) ==
    LET appended == Append(h, entry)
    IN IF Len(appended) > HistoryLimit THEN LastN(appended, HistoryLimit) ELSE appended

\* history[-50:]
Window_all(h) == h

Window(h) == LastN(h, HistoryWindow)

\* --------------------------------------------------------------- the state

\* The clock value when the service is constructed.
Epoch == HistoryLimit

\* Lengths of the per-ticker history an earlier run of the service left in Redis.
InitHistLens == {0, HistoryLimit}

\* The last n entries such a run wrote, stamped Epoch-n+1 .. Epoch.
InitHistory(n) ==
    [i \in 1..n |-> [timestamp |-> Epoch - n + i, score |-> Points(800), risk_level |-> "Low Risk"]]

\* The batch such a run persisted with them.
InitBatch ==
    [scores |-> [t \in TickerSet |->
                    [ticker |-> t, score |-> Points(800), risk_level |-> "Low Risk",
                     color |-> "green", contributions |-> [k \in feature_names |-> 0],
                     explanation |-> "score, tier and key factors", timestamp |-> Epoch]],
     data_timestamp |-> Epoch, processing_timestamp |-> Epoch,
     ticker_count |-> Cardinality(TickerSet)]

\* The record of a call: its operation; how often it invoked ingest_all_data;
\* whether the guard rejected it; whether json:latest_scores was absent when
\* it started (cold); whether get_latest_scores read a cached batch (hit);
\* for a call that returns what it read from the cache, whether Redis
\* answered that read (readOk); the arguments of an operation that takes
\* some (args); the tickers whose scoring task returned a result (scored);
\* the tickers for which ingestion delivered a non-empty financial record
\* (sourced); the cache writes of lines 59 and 60 the refresh has reached
\* (issued) and those of them that Redis failed (failed).
NoCall == [op |-> "none", ingests |-> 0, rejected |-> FALSE, cold |-> FALSE,
           hit |-> FALSE, readOk |-> TRUE, args |-> EmptyDict, scored |-> {},
           sourced |-> {}, issued |-> {}, failed |-> {}]

NewCall(op) == [NoCall EXCEPT !.op = op, !.cold = (latest_scores = None)]

\* "except Exception as e: raise HTTPException(status_code=500, ...)" of the
\* GET /scores handler, entered with the exception raised in its try block
\* (0: not an HTTPException). HTTPException is an Exception.
ScoresExcept(status) == 500

\* The status GET /scores answers with when its get_latest_scores call ends
\* as r: the service raised, returned a falsy value (the handler raises a
\* 404 inside its try block), or returned a batch.
get_scores(r) ==
    IF r.raised THEN ScoresExcept(0)
    ELSE IF ~Truthy(r.val) THEN ScoresExcept(404)
    ELSE 200

\* A return event: the call's record, what its caller received and, for a
\* get_latest_scores call, the status GET /scores makes of it (0 otherwise).
ReturnEvent(k, r) ==
    [call |-> k, raised |-> r.raised, val |-> r.val,
     status |-> IF k.op = "get_latest_scores" THEN get_scores(r) ELSE 0]

NoRet == ReturnEvent(NoCall, Returned(EmptyDict))

\* ProcessingService.__init__, CreditScorer.__init__ and the Redis contents found.
Init ==
    /\ processing = FALSE
    /\ last_update = 0
    /\ is_trained \in BOOLEAN
    /\ now = Epoch
    /\ \E n \in InitHistLens :
          /\ history = [k \in HistKeys |-> IF k \in TickerSet THEN InitHistory(n) ELSE EmptyList]
          /\ latest_scores \in (IF n = 0 THEN {None} ELSE {None, InitBatch})
    /\ pc = [c \in Callers |-> "idle"]
    /\ call = [c \in Callers |-> NoCall]
    /\ data = [c \in Callers |-> EmptyDict]
    /\ processedData = [c \in Callers |-> EmptyDict]
    /\ ret = NoRet

\* Where a coroutine that holds the guard can be suspended.
RefreshPcs == {"ingest", "score", "persist", "history", "finish"}

\* The refreshes that have returned: the clock counts the acquisitions.
Completed == now - Epoch - Cardinality({c \in Callers : pc[c] \in RefreshPcs})

\* Callers are interchangeable: a new call takes the lowest free slot.
Free(c) == pc[c] = "idle" /\ \A d \in Callers : d < c => pc[d] # "idle"

\* ------------------------------------------------------------- the actions

\* Line 17: "return await cache.get_json("latest_scores") or {}".
GuardResult_empty(cacheOk) == EmptyDict

GuardResult(cacheOk) == OrElse(get_json(latest_scores, cacheOk), EmptyDict)

\* Lines 15-20 of process_all_scores, entered by caller c for the call k
\* (process_all_scores itself, or get_latest_scores after a cache miss). The
\* test and the assignment of self.processing have no await between them.
\* cacheOk says whether Redis answers the read of line 17.
EnterProcessAllScores(c, k, cacheOk) ==
    IF GuardBusy
    THEN /\ ret' = ReturnEvent([k EXCEPT !.rejected = TRUE, !.readOk = cacheOk],
                               Returned(GuardResult(cacheOk)))
         /\ UNCHANGED <<processing, last_update, is_trained, latest_scores, history,
                        now, pc, call, data, processedData>>
    ELSE /\ Completed < MaxRefreshes
         /\ processing' = TRUE
         /\ now' = now + 1
         /\ pc' = [pc EXCEPT ![c] = "ingest"]
         /\ call' = [call EXCEPT ![c] = [k EXCEPT !.readOk = TRUE]]
         /\ ret' = NoRet
         /\ UNCHANGED <<last_update, is_trained, latest_scores, history, data,
                        processedData>>

\* A caller invokes process_all_scores (POST /refresh, the startup hook).
ProcessAllScores(c) ==
    /\ Free(c)
    /\ \E cacheOk \in BOOLEAN :
          EnterProcessAllScores(c, NewCall("process_all_scores"), cacheOk)

\* The return of a call that holds the guard: the value goes to the caller,
\* the finally clause releases the guard and the coroutine's frame is gone.
ReturnFromRefresh(c, k, r) ==
    /\ ret' = ReturnEvent(k, r)
    /\ processing' = Release(r)
    /\ pc' = [pc EXCEPT ![c] = "idle"]
    /\ call' = [call EXCEPT ![c] = NoCall]
    /\ data' = [data EXCEPT ![c] = EmptyDict]
    /\ processedData' = [processedData EXCEPT ![c] = EmptyDict]

\* Line 23: "data = await data_ingestion.ingest_all_data()", then lines 24-42.
\* Ingestion raises, returns {} (its own except), or returns the data set.
IngestRaises(c) ==
    /\ pc[c] = "ingest"
    /\ ReturnFromRefresh(c, [call[c] EXCEPT !.ingests = @ + 1], ExceptHandler)
    /\ UNCHANGED <<last_update, is_trained, latest_scores, history, now>>

IngestEmpty(c) ==
    /\ pc[c] = "ingest"
    /\ ReturnFromRefresh(c, [call[c] EXCEPT !.ingests = @ + 1], Returned(EmptyDict))
    /\ UNCHANGED <<last_update, is_trained, latest_scores, history, now>>

Ingest(c) ==
    /\ pc[c] = "ingest"
    /\ \E full \in SUBSET TickerSet :
          LET d == IngestedData(full)
          IN /\ data' = [data EXCEPT ![c] = d]
             /\ IF Tasks(d) # <<>>
                THEN /\ pc' = [pc EXCEPT ![c] = "score"]
                     /\ UNCHANGED processedData
                ELSE /\ pc' = [pc EXCEPT ![c] = "persist"]
                     /\ processedData' = [processedData EXCEPT ![c] =
                                             BuildProcessedData(EmptyDict, d, 0)]
             /\ call' = [call EXCEPT ![c].ingests = @ + 1, ![c].sourced = full]
    /\ ret' = NoRet
    /\ UNCHANGED <<processing, last_update, is_trained, latest_scores, history, now>>

\* Lines 44-58: gather's results (one outcome per task), the fan-in loop and
\* the batch built from it.
Score(c) ==
    /\ pc[c] = "score"
    /\ LET tasks == Tasks(data[c])
       IN \E o \in [1..Len(tasks) -> TaskOutcomes] :
             LET results == [i \in 1..Len(tasks) |-> TaskResult(data[c], tasks[i], o[i])]
                 scores == FanIn(results, 1, EmptyDict)
             IN /\ processedData' = [processedData EXCEPT ![c] =
                                        BuildProcessedData(scores, data[c], Len(tasks))]
                /\ call' = [call EXCEPT ![c].scored =
                               {tasks[i] : i \in {j \in 1..Len(tasks) : Truthy(results[j])
                                                      /\ results[j] # ExceptionObject}}]
    /\ pc' = [pc EXCEPT ![c] = "persist"]
    /\ ret' = NoRet
    /\ UNCHANGED <<processing, last_update, is_trained, latest_scores, history, now,
                   data>>

\* Cache.set_json catches what Redis raises and returns False: a failed write
\* raises nothing into process_all_scores.
SetJsonRaises_propagates(ok) == ~ok

SetJsonRaises(ok) == FALSE

\* The order of lines 59-61: the latest batch, then the history, then
\* last_update and the return.
After_skipHistory(step) == "finish"

After(step) == IF step = "persist" THEN "history" ELSE "finish"

\* Line 59: await cache.set_json("latest_scores", processedData, 3600).
\* `data` is not read after line 55.
PersistLatest(c) ==
    /\ pc[c] = "persist"
    /\ \E cacheOk \in BOOLEAN :
          LET k == [call[c] EXCEPT !.issued = @ \cup {"latest"},
                                   !.failed = IF cacheOk THEN @ ELSE @ \cup {"latest"}]
          IN IF SetJsonRaises(cacheOk)
             THEN /\ ReturnFromRefresh(c, k, ExceptHandler)
                  /\ UNCHANGED <<last_update, is_trained, latest_scores, history, now>>
             ELSE /\ latest_scores' = set_json(latest_scores, processedData[c], cacheOk)
                  /\ pc' = [pc EXCEPT ![c] = After("persist")]
                  /\ call' = [call EXCEPT ![c] = k]
                  /\ data' = [data EXCEPT ![c] = EmptyDict]
                  /\ ret' = NoRet
                  /\ UNCHANGED <<processing, last_update, is_trained, history, now,
                                 processedData>>

\* Line 60: _store_historical_scores(scores). For every scored ticker the
\* stored history is read (readOk: Redis answered; None otherwise), the new
\* entry appended, the list cut to its last 100 and written back (writeOk;
\* the write is dropped otherwise).
StoredHistory(h, scores, readOk, writeOk) ==
    [k \in HistKeys |->
        IF k \in DOMAIN scores
        THEN set_json(h[k],
                      AppendBounded(OrElse(get_json(h[k], readOk), EmptyList),
                                    HistoryEntry(scores[k])),
                      writeOk)
        ELSE h[k]]

StoreHistoricalScores(c) ==
    /\ pc[c] = "history"
    /\ \E readOk \in BOOLEAN : \E writeOk \in BOOLEAN :
          /\ history' = StoredHistory(history, processedData[c].scores, readOk, writeOk)
          /\ call' = [call EXCEPT
                         ![c].issued = @ \cup {"history"},
                         ![c].failed = IF writeOk \/ ~Truthy(processedData[c].scores)
                                       THEN @ ELSE @ \cup {"history"}]
    /\ pc' = [pc EXCEPT ![c] = After("history")]
    /\ ret' = NoRet
    /\ UNCHANGED <<processing, last_update, is_trained, latest_scores, now, data,
                   processedData>>

\* Lines 61-63 and 68-69: record the completion time, return the batch, release.
Finish(c) ==
    /\ pc[c] = "finish"
    /\ last_update' = now
    /\ ReturnFromRefresh(c, call[c], Returned(processedData[c]))
    /\ UNCHANGED <<is_trained, latest_scores, history, now>>

\* "if scores: return scores"
CacheHit_never(scores) == FALSE

CacheHit(scores) == Truthy(scores)

\* get_latest_scores: the cached batch, or on a miss process_all_scores.
GetLatestScores(c) ==
    /\ Free(c)
    /\ \E readOk \in BOOLEAN :
          LET scores == get_json(latest_scores, readOk)
              k == [NewCall("get_latest_scores") EXCEPT !.hit = Truthy(scores),
                                                        !.readOk = readOk]
          IN IF CacheHit(scores)
             THEN /\ ret' = ReturnEvent(k, Returned(scores))
                  /\ UNCHANGED <<processing, last_update, is_trained, latest_scores,
                                 history, now, pc, call, data, processedData>>
             ELSE \E cacheOk \in BOOLEAN : EnterProcessAllScores(c, k, cacheOk)

\* get_ticker_history(ticker): the last 50 stored entries.
GetTickerHistory(c) ==
    /\ Free(c)
    /\ \E ticker \in HistKeys : \E readOk \in BOOLEAN :
          ret' = ReturnEvent([NewCall("get_ticker_history") EXCEPT
                                 !.readOk = readOk, !.args = [ticker |-> ticker]],
                     Returned(Window(OrElse(get_json(history[ticker], readOk), EmptyList))))
    /\ UNCHANGED <<processing, last_update, is_trained, latest_scores, history, now,
                   pc, call, data, processedData>>

\* get_system_status.
GetSystemStatus(c) ==
    /\ Free(c)
    /\ \E readOk \in BOOLEAN :
          ret' = ReturnEvent([NewCall("get_system_status") EXCEPT !.readOk = readOk],
                     Returned([processing |-> processing,
                               last_update |-> last_update,
                               cache_status |-> IF Truthy(get_json(latest_scores, readOk))
                                                THEN "connected" ELSE "empty",
                               timestamp |-> now]))
    /\ UNCHANGED <<processing, last_update, is_trained, latest_scores, history, now,
                   pc, call, data, processedData>>

\* Redis drops json:latest_scores when its 3600 s time-to-live runs out.
ExpireLatest ==
    /\ latest_scores # None
    /\ latest_scores' = None
    /\ ret' = NoRet
    /\ UNCHANGED <<processing, last_update, is_trained, history, now, pc, call, data,
                   processedData>>

\* One step of the refresh that caller c runs.
RefreshStep(c) ==
    \/ IngestRaises(c)
    \/ IngestEmpty(c)
    \/ Ingest(c)
    \/ Score(c)
    \/ PersistLatest(c)
    \/ StoreHistoricalScores(c)
    \/ Finish(c)

Next ==
    \/ \E c \in Callers : ProcessAllScores(c)
    \/ \E c \in Callers : GetLatestScores(c)
    \/ \E c \in Callers : GetTickerHistory(c)
    \/ \E c \in Callers : GetSystemStatus(c)
    \/ \E c \in Callers : IngestRaises(c)
    \/ \E c \in Callers : IngestEmpty(c)
    \/ \E c \in Callers : Ingest(c)
    \/ \E c \in Callers : Score(c)
    \/ \E c \in Callers : PersistLatest(c)
    \/ \E c \in Callers : StoreHistoricalScores(c)
    \/ \E c \in Callers : Finish(c)
    \/ ExpireLatest

Spec == Init /\ [][Next]_vars

\* The event loop resumes every suspended coroutine, and ingestion and the
\* scoring tasks terminate: a refresh that holds the guard keeps taking steps.
FairSpec == Spec /\ \A c \in Callers : WF_vars(RefreshStep(c))

\* ------------------------------------------------- the scorer on its own

\* The values a caller passes for debt_to_equity, roe and sentiment_score:
\* both sides of every threshold of the fallback rules, the thresholds
\* themselves, and a value that is no number.
DebtToEquityInputs == {NotANumber, 30, 50, 200, 300}

RoeInputs == {NotANumber, -10, 0, 15, 20}

SentimentInputs == {NotANumber, 20, 40, 60, 80}

\* The regression's predictions: inside the range, just below a tier
\* threshold, and outside the range.
Predictions == {-2000, 49996, 74996, Points(800), 100050}

ModelBehaviours == {[fails |-> f, prediction |-> p] : f \in Steps \cup {"none"},
                                                      p \in Predictions}

\* The financial records with any of the two fields present, and the news
\* records with or without a sentiment.
FinancialInputs ==
    UNION {{[k \in present |-> IF k = "debt_to_equity" THEN d ELSE r] :
               d \in DebtToEquityInputs, r \in RoeInputs} :
           present \in SUBSET {"debt_to_equity", "roe"}}

NewsInputs ==
    UNION {{[k \in present |-> s] : s \in SentimentInputs} :
           present \in SUBSET {"sentiment_score"}}

\* The calls a caller can make of the scorer, with their arguments.
ScorerCalls ==
    {[NoCall EXCEPT !.op = "calculate_score",
                    !.args = [ticker |-> t, financial_data |-> f, news_data |-> n, m |-> m]] :
        t \in TickerSet, f \in FinancialInputs, n \in NewsInputs, m \in ModelBehaviours}
    \cup
    {[NoCall EXCEPT !.op = "_fallback_score",
                    !.args = [ticker |-> t, financial_data |-> f, news_data |-> n,
                              m |-> Predicts]] :
        t \in {UnknownTicker}, f \in FinancialInputs, n \in NewsInputs}

\* An idle service, the scorer trained or not, and caller 1 about to make one
\* of these calls.
ScorerInit ==
    /\ processing = FALSE
    /\ last_update = 0
    /\ is_trained \in BOOLEAN
    /\ now = Epoch
    /\ history = [k \in HistKeys |-> EmptyList]
    /\ latest_scores = None
    /\ pc = [c \in Callers |-> IF c = 1 THEN "scorer" ELSE "idle"]
    /\ \E k \in ScorerCalls : call = [c \in Callers |-> IF c = 1 THEN k ELSE NoCall]
    /\ data = [c \in Callers |-> EmptyDict]
    /\ processedData = [c \in Callers |-> EmptyDict]
    /\ ret = NoRet

\* The return of a scorer call to caller c.
ReturnFromScorer(c, r) ==
    /\ ret' = ReturnEvent(call[c], r)
    /\ pc' = [pc EXCEPT ![c] = "idle"]
    /\ call' = [call EXCEPT ![c] = NoCall]
    /\ UNCHANGED <<processing, last_update, is_trained, latest_scores, history, now,
                   data, processedData>>

\* credit_scorer.calculate_score(ticker, financial_data, news_data, macro_data).
CalculateScore(c) ==
    /\ pc[c] = "scorer"
    /\ call[c].op = "calculate_score"
    /\ ReturnFromScorer(c, calculate_score(call[c].args.ticker, call[c].args.financial_data,
                                           call[c].args.news_data, MacroA, call[c].args.m))

\* credit_scorer._fallback_score(financial_data, news_data).
FallbackScore(c) ==
    /\ pc[c] = "scorer"
    /\ call[c].op = "_fallback_score"
    /\ ReturnFromScorer(c, Returned(_fallback_score(call[c].args.financial_data,
                                                    call[c].args.news_data,
                                                    call[c].args.ticker)))

ScorerNext ==
    \/ \E c \in Callers : CalculateScore(c)
    \/ \E c \in Callers : FallbackScore(c)

\* The scorer called once with each of the inputs above.
ScorerSpec == ScorerInit /\ [][ScorerNext]_vars

\* ------------------------------------------------------------------ claims

\* The callers whose coroutine holds the guard.
Refreshing == {c \in Callers : pc[c] \in RefreshPcs}

AllIdle == \A c \in Callers : pc[c] = "idle"

\* The keys of a ProcessedData (api/schemas.py).
BatchFields == {"scores", "data_timestamp", "processing_timestamp", "ticker_count"}

\* The step just taken returned from a call of process_all_scores or of
\* get_latest_scores.
BatchReturn == ret.call.op \in {"process_all_scores", "get_latest_scores"}

\* The step just taken returned from a refresh that held the guard.
RefreshReturn == BatchReturn /\ ~ret.call.rejected /\ ~ret.call.hit

\* C1: in every reachable state at most one call is between acquiring the
\* guard (processing set to True) and releasing it.
C1_SingleFlight == Cardinality(Refreshing) <= 1

\* A get_latest_scores call has just been turned away on its cold-start path
\* while another call holds the guard.
C1_Witness ==
    /\ Refreshing # {}
    /\ ret.call.op = "get_latest_scores"
    /\ ret.call.rejected

\* C2: a call that finds a refresh in progress returns having invoked no
\* ingestion and without becoming a second refresh (the running one stays the
\* only one), and once every call has returned the processing flag is False.
C2_SecondCallReturns ==
    /\ ret.call.rejected => (ret.call.ingests = 0 /\ Cardinality(Refreshing) = 1)
    /\ AllIdle => processing = FALSE

\* A second process_all_scores call has just returned, turned away while the
\* first is still ingesting.
C2_Witness ==
    /\ ret.call.rejected
    /\ ret.call.op = "process_all_scores"
    /\ ret.call.ingests = 0
    /\ \E c \in Callers : pc[c] = "ingest" /\ call[c].op = "process_all_scores"

\* C3: processing is True only while some call is executing a refresh, and
\* (ingestion and scoring terminating) whenever it is True it becomes False
\* again.
C3_GuaranteedRelease ==
    /\ [](processing => Refreshing # {})
    /\ (processing ~> ~processing)

\* A refresh has just left through an early exit (no data, or the exception
\* handler) and the guard is free.
C3_Witness ==
    /\ RefreshReturn
    /\ ret.call.op = "process_all_scores"
    /\ ret.call.ingests = 1
    /\ ret.val = EmptyDict
    /\ processing = FALSE
    /\ AllIdle

\* C4 as stated: a call that finds a refresh in progress returns exactly the
\* batch persisted under latest_scores.
C4_Original ==
    (ret.call.rejected /\ ret.call.op = "process_all_scores") => ret.val = latest_scores

\* A step in which a call is turned away by the guard.
Rejection == ret'.call.rejected /\ ret' # ret

\* C4 amended: the rejected call returns the persisted batch when Redis
\* answers the read and the empty mapping when it does not (or when nothing is
\* persisted), and the step changes neither the processing flag, last_update,
\* the persisted batch nor any history key.
C4_GuardReturnsPersisted ==
    /\ []((ret.call.rejected /\ ret.call.op = "process_all_scores") =>
             ret.val = (IF ret.call.readOk THEN latest_scores ELSE EmptyDict))
    /\ [][Rejection => UNCHANGED <<processing, last_update, latest_scores, history>>]_vars

\* A rejected call has just returned a persisted batch while the flag stays
\* held by the running refresh.
C4_Witness ==
    /\ ret.call.rejected
    /\ ret.call.op = "process_all_scores"
    /\ Truthy(ret.val)
    /\ ret.val = latest_scores
    /\ processing = TRUE

\* C5: no operation of the service hands an exception to its caller.
C5_NoHardFailure == ret.raised = FALSE

\* A cold-start get_latest_scores whose refresh ended in the exception
\* handler or with no data has just returned a value.
C5_Witness ==
    /\ ret.call.op = "get_latest_scores"
    /\ ~ret.call.rejected
    /\ ret.call.ingests = 1
    /\ ret.val = EmptyDict
    /\ ret.raised = FALSE

\* C6 as stated: every value process_all_scores or get_latest_scores returns
\* carries scores, data_timestamp, processing_timestamp and ticker_count.
C6_Original == BatchReturn => DOMAIN ret.val = BatchFields

\* C7 as stated: get_latest_scores called with no latest batch cached runs
\* exactly one ingestion and returns what that refresh returns, and a call
\* that finds the batch returns it without ingesting.
C7_Original ==
    ret.call.op = "get_latest_scores" =>
        /\ ret.call.cold => (ret.call.ingests = 1 /\ ~ret.call.rejected)
        /\ ret.call.hit => (ret.call.ingests = 0 /\ ret.val = latest_scores)

\* C7 amended: a get_latest_scores call that misses the cache invokes
\* ingest_all_data exactly once when no refresh is in progress, and what it
\* then returns is that refresh's result (the batch stamped by it, or the
\* empty mapping); it invokes no ingestion when a refresh is in progress; a
\* call that reads a cached batch returns it without ingesting.
C7_ColdStart ==
    ret.call.op = "get_latest_scores" =>
        /\ (~ret.call.hit /\ ~ret.call.rejected) =>
              /\ ret.call.ingests = 1
              /\ Truthy(ret.val) =>
                    /\ DOMAIN ret.val = BatchFields
                    /\ ret.val.processing_timestamp = now
        /\ (~ret.call.hit /\ ret.call.rejected) => ret.call.ingests = 0
        /\ ret.call.hit =>
              /\ ret.call.ingests = 0
              /\ Truthy(ret.val)
              /\ ret.val = latest_scores

\* A cold-start get_latest_scores has just returned the batch of the one
\* refresh it ran, which is now the cached batch.
C7_Witness ==
    /\ ret.call.op = "get_latest_scores"
    /\ ret.call.cold
    /\ ~ret.call.rejected
    /\ ret.call.ingests = 1
    /\ DOMAIN ret.val = BatchFields
    /\ ret.val = latest_scores

\* The tickers whose financial record in d is empty or missing.
Unscoreable(d) == {t \in TickerSet : ~Truthy(Get(d.financial, t, EmptyDict))}

\* The tickers a task was created for.
Scheduled(d) == {Tasks(d)[i] : i \in 1..Len(Tasks(d))}

\* C8: in the batch a refresh builds, a ticker with an empty financial record
\* is no key of the scores mapping, is not counted, and got no scoring task.
C8_EmptyRecordExcluded ==
    \A c \in Callers : pc[c] = "persist" =>
        /\ Unscoreable(data[c]) \cap DOMAIN processedData[c].scores = {}
        /\ Unscoreable(data[c]) \cap Scheduled(data[c]) = {}
        /\ processedData[c].ticker_count <= Cardinality(TickerSet \ Unscoreable(data[c]))

\* A batch has been built from one ticker with an empty record and one that
\* was scored.
C8_Witness ==
    \E c \in Callers :
        /\ pc[c] = "persist"
        /\ Unscoreable(data[c]) = {"AAPL"}
        /\ DOMAIN processedData[c].scores = {"GOOGL"}
        /\ processedData[c].ticker_count = 1

\* The batches a refresh has built or persisted.
Batches ==
    {processedData[c] : c \in {d \in Callers : pc[d] \in {"persist", "history", "finish"}}}
    \cup (IF latest_scores # None THEN {latest_scores} ELSE {})
    \cup (IF RefreshReturn /\ Truthy(ret.val) THEN {ret.val} ELSE {})

\* C9: every batch built or persisted counts exactly the keys of its scores
\* mapping, and every value of the mapping has ticker, score and risk_level.
C9_BatchWellFormed ==
    \A b \in Batches :
        /\ b.ticker_count = Cardinality(DOMAIN b.scores)
        /\ \A k \in DOMAIN b.scores :
              {"ticker", "score", "risk_level"} \subseteq DOMAIN b.scores[k]

\* A batch has been persisted from a refresh in which both tickers had a
\* task and one of the tasks failed.
C9_Witness ==
    \E c \in Callers :
        /\ pc[c] = "history"
        /\ latest_scores = processedData[c]
        /\ is_trained
        /\ Cardinality(DOMAIN latest_scores.scores) = 1
        /\ latest_scores.ticker_count = 1

\* C10: no history key holds more than 100 entries, get_ticker_history never
\* returns more than 50, and a write to a key holding 100 entries that leaves
\* it with 100 has dropped the oldest entry and kept the others in order.
C10_HistoryBounded ==
    /\ [](/\ \A k \in HistKeys : Len(history[k]) <= HistoryLimit
          /\ ret.call.op = "get_ticker_history" => Len(ret.val) <= HistoryWindow)
    /\ [][\A k \in HistKeys :
            (/\ Len(history[k]) = HistoryLimit
             /\ Len(history'[k]) = HistoryLimit
             /\ history'[k] # history[k])
            => history'[k] = Tail(history[k]) \o <<history'[k][HistoryLimit]>>]_vars

\* Entry 101 has been appended to a history holding entries 1..100, which
\* now holds entries 2..101.
C10_Witness ==
    \E k \in HistKeys :
        /\ Len(history[k]) = HistoryLimit
        /\ \A i \in 1..HistoryLimit : history[k][i].timestamp = i + 1

\* C11: get_ticker_history(ticker) returns, without raising, the last
\* min(50, n) of the n entries stored under the ticker's history key, oldest
\* first as the refreshes appended them, and the empty sequence when the key
\* holds nothing or Redis does not answer the read.
C11_LastFifty ==
    ret.call.op = "get_ticker_history" =>
        LET h == history[ret.call.args.ticker]
            n == Len(h)
            k == Min(HistoryWindow, n)
        IN /\ ret.raised = FALSE
           /\ Len(ret.val) = (IF ret.call.readOk THEN k ELSE 0)
           /\ \A i \in 1..Len(ret.val) : ret.val[i] = h[n - k + i]
           /\ \A i \in 1..(Len(ret.val) - 1) :
                 ret.val[i].timestamp < ret.val[i + 1].timestamp

\* A read of a full history to which this run's refresh has appended: the
\* 50 entries returned end with that refresh's entry.
C11_Witness ==
    /\ ret.call.op = "get_ticker_history"
    /\ ret.call.readOk
    /\ Len(history[ret.call.args.ticker]) = HistoryLimit
    /\ Len(ret.val) = HistoryWindow
    /\ ret.val[HistoryWindow].timestamp = Epoch + 1
    /\ ret.val[1].timestamp = Epoch + 1 - (HistoryWindow - 1)

\* The tier the thresholds give to a score.
DocumentedTier(score) ==
    IF score >= Points(750) THEN "Low Risk"
    ELSE IF score >= Points(500) THEN "Medium Risk"
    ELSE "High Risk"

\* C12 as stated: every result calculate_score returns has a score in
\* [0,1000] and the tier the thresholds give to that returned score.
C12_Original ==
    ret.call.op = "calculate_score" =>
        /\ ret.val.score >= 0
        /\ ret.val.score <= Points(1000)
        /\ ret.val.risk_level = DocumentedTier(ret.val.score)

\* Some step of the model path raised in the calculate_score call with the
\* arguments a.
StepFailed(a) ==
    \/ a.m.fails # "none"
    \/ ExtractRaises(a.financial_data, a.m)
    \/ ScaleRaises(_extract_features(a.financial_data, a.news_data, MacroA, a.m), a.m)

\* C13 as stated: a calculate_score call of the trained scorer in which a
\* step of the model path raised returns what _fallback_score returns for
\* its records and ticker.
C13_Original ==
    (ret.call.op = "calculate_score" /\ is_trained /\ StepFailed(ret.call.args)) =>
        ret.val = _fallback_score(ret.call.args.financial_data, ret.call.args.news_data,
                                  ret.call.args.ticker)

\* C14 as stated: every result of _fallback_score, whatever the records hold,
\* has a score in [0,1000] and a contribution map whose one key is
\* 'fallback'.
C14_Original ==
    ret.call.op = "_fallback_score" =>
        /\ ret.val.score >= 0
        /\ ret.val.score <= Points(1000)
        /\ DOMAIN ret.val.contributions = {"fallback"}

\* The three adjustments of the fallback rules, in points.
DebtAdjustment(d) == IF d < 50 THEN 100 ELSE IF d > 200 THEN -150 ELSE 0

RoeAdjustment(r) == IF r > 15 THEN 100 ELSE IF r < 0 THEN -200 ELSE 0

SentimentAdjustment(s) == IF s > 60 THEN 50 ELSE IF s < 40 THEN -50 ELSE 0

\* C15: for numeric debt-to-equity d, ROE r and sentiment s (a missing field
\* taking its default), _fallback_score returns 500 plus the three
\* adjustments, clamped to [0,1000]; (0.3, 0.2, 0.8) gives 750 and Low Risk,
\* (3.0, -0.1, 0.2) gives 100 and High Risk, and values on the boundaries
\* 0.5, 2, 0.15, 0, 0.6 and 0.4 give 500.
C15_FallbackRules ==
    ret.call.op = "_fallback_score" =>
        LET d == Get(ret.call.args.financial_data, "debt_to_equity", 100)
            r == Get(ret.call.args.financial_data, "roe", 0)
            s == Get(ret.call.args.news_data, "sentiment_score", 50)
            sum == 500 + DebtAdjustment(d) + RoeAdjustment(r) + SentimentAdjustment(s)
        IN (d # NotANumber /\ r # NotANumber /\ s # NotANumber) =>
              /\ ret.val.score = Points(IF sum < 0 THEN 0 ELSE IF sum > 1000 THEN 1000 ELSE sum)
              /\ (d = 30 /\ r = 20 /\ s = 80) =>
                    (ret.val.score = Points(750) /\ ret.val.risk_level = "Low Risk")
              /\ (d = 300 /\ r = -10 /\ s = 20) =>
                    (ret.val.score = Points(100) /\ ret.val.risk_level = "High Risk")
              /\ (d \in {50, 200} /\ r \in {0, 15} /\ s \in {40, 60}) =>
                    ret.val.score = Points(500)

\* _fallback_score has returned 100 and High Risk for (3.0, -0.1, 0.2).
C15_Witness ==
    /\ ret.call.op = "_fallback_score"
    /\ ret.call.args.financial_data = [debt_to_equity |-> 300, roe |-> -10]
    /\ ret.call.args.news_data = [sentiment_score |-> 20]
    /\ ret.val.score = Points(100)
    /\ ret.val.risk_level = "High Risk"

\* The keys of a ScoreResult.
ScoreResultFields == {"ticker", "score", "risk_level", "color", "contributions",
                      "explanation", "timestamp"}

\* C16: whatever the inputs, whichever step of the model path raises and
\* whether or not the fallback rules raise too, calculate_score hands its
\* caller a value, never an exception, and the value has the seven fields of
\* a ScoreResult.
C16_NeverRaises ==
    ret.call.op = "calculate_score" =>
        /\ ret.raised = FALSE
        /\ DOMAIN ret.val = ScoreResultFields

\* A call of the trained scorer in which the prediction raised and then the
\* fallback rules raised on a ROE that is no number has returned the
\* fallback's error result.
C16_Witness ==
    /\ ret.call.op = "calculate_score"
    /\ is_trained
    /\ ret.call.args.m.fails = "predict"
    /\ ret.call.args.financial_data = [roe |-> NotANumber]
    /\ ret.raised = FALSE
    /\ ret.val.explanation = "Error in scoring"

\* A step in which get_ticker_history or get_system_status returns, or
\* get_latest_scores returns having read a cached batch.
AccessorReturn ==
    \/ ret'.call.op \in {"get_ticker_history", "get_system_status"}
    \/ ret'.call.op = "get_latest_scores" /\ ret'.call.hit

\* C17: a call of get_ticker_history or get_system_status, and a call of
\* get_latest_scores that reads a cached batch, changes neither the
\* processing flag, last_update, the persisted latest batch nor any history
\* key, and neither starts nor ends a refresh.
C17_AccessorsReadOnly ==
    [][AccessorReturn =>
          /\ UNCHANGED <<processing, last_update, latest_scores, history>>
          /\ Refreshing' = Refreshing]_vars

\* get_latest_scores has just returned the cached batch while another call
\* is scoring, and that refresh is still the one in progress.
C17_Witness ==
    /\ ret.call.op = "get_latest_scores"
    /\ ret.call.hit
    /\ ret.val = latest_scores
    /\ processing
    /\ \E c \in Callers : pc[c] = "score"

\* C18 as stated: whichever scoring tasks fail, the refresh goes on to
\* persist a batch, and the keys of its scores mapping are exactly the
\* tickers with a non-empty financial record whose task returned a result.
C18_Original ==
    \A c \in Callers : pc[c] \in {"persist", "history", "finish"} =>
        DOMAIN processedData[c].scores = call[c].scored

\* h2 is h with one entry appended, the oldest entry dropped if h was full.
OneAppended(h, h2) ==
    /\ Len(h2) >= 1
    /\ \/ h2 = Append(h, h2[Len(h2)])
       \/ Len(h) = HistoryLimit /\ h2 = Append(Tail(h), h2[Len(h2)])

\* The step in which the refresh of caller c stores the history of its batch.
HistoryStep(c) == pc[c] = "history" /\ pc'[c] = "finish"

\* C19 as stated: the refresh that completes with a batch appends exactly one
\* entry to the history of every ticker of the batch, leaves every other
\* history as it was and rewrites no stored entry.
C19_Original ==
    [][\A c \in Callers : HistoryStep(c) =>
          \A k \in HistKeys :
             IF k \in DOMAIN processedData[c].scores
             THEN OneAppended(history[k], history'[k])
             ELSE history'[k] = history[k]]_vars

\* C20 as stated: whatever the cache does during a refresh, a history key
\* changes only by an append at its end, with the oldest entry dropped
\* beyond 100.
C20_Original ==
    [][\A k \in HistKeys :
          history'[k] # history[k] => OneAppended(history[k], history'[k])]_vars

\* C21 as stated: last_update changes only in the step that ends a refresh
\* which obtained a financial record for some ticker and built its batch;
\* a rejected call, a refresh without any financial data and a refresh that
\* ended in the exception handler leave it as it was.
C21_Original ==
    [][last_update' # last_update =>
          \E c \in Callers : /\ pc[c] = "finish"
                             /\ pc'[c] = "idle"
                             /\ call[c].sourced # {}]_vars

\* C22 as stated: the refresh for which ingestion delivered no financial
\* record for any ticker leaves the persisted latest batch as it was.
C22_Original ==
    [][\A c \in Callers :
          (pc[c] = "persist" /\ pc'[c] # "persist" /\ call[c].sourced = {})
          => latest_scores' = latest_scores]_vars

\* C23: a refresh during which Redis failed the write of the latest batch or
\* of a history key still returns to its caller, as a value, the batch it
\* built (the one stamped with this refresh's time, counting its own
\* scores), and the guard is released when it returns.
C23_WriteFailureTolerated ==
    (RefreshReturn /\ ret.call.failed # {}) =>
        /\ ret.raised = FALSE
        /\ DOMAIN ret.val = BatchFields
        /\ ret.val.processing_timestamp = now
        /\ ret.val.ticker_count = Cardinality(DOMAIN ret.val.scores)
        /\ processing = FALSE

\* process_all_scores has just returned a batch with scores of which neither
\* the latest-batch write nor the history write reached Redis.
C23_Witness ==
    /\ RefreshReturn
    /\ ret.call.op = "process_all_scores"
    /\ ret.call.failed = {"latest", "history"}
    /\ DOMAIN ret.val = BatchFields
    /\ Truthy(ret.val.scores)
    /\ latest_scores # ret.val
    /\ processing = FALSE

\* C24: a refresh that has built its batch writes the latest batch first,
\* then the history, and only after both records last_update and releases
\* the guard: while it is at one of the two writes last_update is not yet its
\* own time and the guard is held, and whenever last_update is the time of a
\* refresh, that refresh has issued both writes.
C24_StepOrder ==
    /\ \A c \in Callers :
          /\ pc[c] = "persist" => call[c].issued = {}
          /\ pc[c] = "history" => call[c].issued = {"latest"}
          /\ pc[c] = "finish" => call[c].issued = {"latest", "history"}
          /\ pc[c] \in {"persist", "history", "finish"} =>
                /\ processing
                /\ last_update # processedData[c].processing_timestamp
    /\ (RefreshReturn /\ Truthy(ret.val)) =>
          /\ ret.call.issued = {"latest", "history"}
          /\ last_update = ret.val.processing_timestamp
          /\ processing = FALSE

\* A refresh has just returned with the guard free and last_update its
\* time, its batch persisted and its entry the last of a history.
C24_Witness ==
    /\ RefreshReturn
    /\ Truthy(ret.val)
    /\ processing = FALSE
    /\ last_update = now
    /\ latest_scores = ret.val
    /\ \E k \in DOMAIN ret.val.scores :
          /\ Len(history[k]) > 0
          /\ history[k][Len(history[k])].timestamp = now

\* C25 as stated: in the batch a refresh has built every key of the scores
\* mapping is a ticker for which ingestion delivered a non-empty financial
\* record, the result under key k carries ticker k, and there are as many
\* keys as tickers whose scoring returned a result.
C25_Original ==
    \A c \in Callers : pc[c] \in {"persist", "history", "finish"} =>
        LET scores == processedData[c].scores
        IN /\ DOMAIN scores \subseteq call[c].sourced
           /\ \A k \in DOMAIN scores : scores[k].ticker = k
           /\ Cardinality(DOMAIN scores) = Cardinality(call[c].scored)

\* The last entry stored under a history key.
LastEntry(k) == history[k][Len(history[k])]

\* C26: when a refresh returns its batch with none of its cache writes
\* failed and the batch still persisted, every ticker of the latest batch
\* has a history whose last entry carries that ticker's score and risk_level
\* of the batch.
C26_HistoryMatchesLatest ==
    (RefreshReturn /\ Truthy(ret.val) /\ ret.call.failed = {} /\ latest_scores = ret.val) =>
        \A k \in DOMAIN latest_scores.scores :
            /\ Len(history[k]) > 0
            /\ LastEntry(k).score = latest_scores.scores[k].score
            /\ LastEntry(k).risk_level = latest_scores.scores[k].risk_level

\* A refresh of the trained scorer has returned a batch with a model score
\* for one ticker and a fallback score for the other, all writes done, and
\* the two histories end with these two scores.
C26_Witness ==
    /\ RefreshReturn
    /\ Truthy(ret.val)
    /\ ret.call.failed = {}
    /\ latest_scores = ret.val
    /\ DOMAIN latest_scores.scores = TickerSet
    /\ latest_scores.scores["AAPL"].score = Points(800)
    /\ latest_scores.scores["GOOGL"].score = Points(100)
    /\ LastEntry("AAPL").score = Points(800)
    /\ LastEntry("GOOGL").risk_level = "High Risk"

\* C27 as stated: GET /scores answers 404 whenever its get_latest_scores call
\* returned an empty result, and 500 only when that call ended in an error.
C27_Original ==
    ret.call.op = "get_latest_scores" =>
        /\ ~Truthy(ret.val) => ret.status = 404
        /\ ret.status = 500 => ret.raised

====
